---- MODULE Spec2Model ----
(***************************************************************************)
(* The decoding state machine of the VRP pointer network (src/PtrNet.py):  *)
(* Decoder.forward, its inner recurrence, Decoder.apply_mask_to_logits and *)
(* Decoder.decode_stochastic, as driven by PointerNetwork.forward or by a  *)
(* direct call with the argument layout Decoder.forward's docstring gives. *)
(*                                                                         *)
(* Scope.  The index logic of the decoder (mask, sampling support, the     *)
(* writes into before_embedded_inputs, embedded_inputs, context, hx, cx    *)
(* and rc_ct, the loop budget, the decode_type branches) is modelled       *)
(* statement by statement.  The numeric kernels the decoder calls          *)
(* (Struct2Vec, Encoder, the decoder LSTM, Attention) are black boxes:     *)
(* each returns a value of the shape its caller's comments state, the      *)
(* value being recorded as a provenance stamp (which kernel, at which      *)
(* step).  The mask is applied to the logits element by element, which is  *)
(* the reading the name and comments of apply_mask_to_logits state.        *)
(* Reals are modelled exactly on an integer domain: coordinates are        *)
(* collinear so every Euclidean distance is an integer, and a probability  *)
(* row is the numerators of its entries over their common denominator.     *)
(* Outcomes that depend on the torch build (the truth value of an empty    *)
(* tensor, multinomial over a NaN row) are nondeterministic choices.       *)
(***************************************************************************)
EXTENDS Integers, Sequences, FiniteSets, TLC

\* ---------------------------------------------------------------- bounds
\* seq_len / node_num: nodes per instance, depot included.
NodeNum == 3
\* Largest batch size a forward pass is called with.
MaxBatch == 3
\* vehicle_init_capacity, a constructor argument.
VehicleInitCapacity == 3
\* Number of distinct dataset offsets a batch may start at.
MaxFirst == 0

\* ------------------------------------------------------ program constants
MaxDemand == 10
MaxT1 == 5
n_glimpses == 1

Nodes == 0 .. (NodeNum - 1)
\* Python's None, for the tensors forward has not created yet.
None == <<>>
\* A logit is a natural number or NegInf (-np.inf).
NegInf == -1

VARIABLES
    caller,                  \* who calls Decoder.forward
    decode_type,             \* Decoder.decode_type
    empty_bool,              \* torch build: bool() of an empty tensor
    batch_size,
    before_embedded_inputs,  \* raw features, as the tensor the decoder holds
    embedded_inputs,         \* [node][batch] -> stamp
    context,                 \* [batch] -> stamp of the encoder output column
    hx, cx,                  \* [batch] -> stamp
    decoder_input,           \* [batch] -> <<embedding stamp, rc, ct>>
    mask,                    \* None or [batch][node] -> 0/1
    probs,                   \* None or [batch] -> probability row
    idxs,                    \* [batch] -> node
    zero_idxs,               \* set of batch positions (ascending tensor)
    rc_ct,                   \* [batch] -> <<remaining capacity, current time>>
    outputs, selections,     \* the two trajectories
    step,                    \* iterations of the decoding loop begun
    pc,                      \* position in forward
    error,                   \* the exception raised, if any
    returned                 \* what Decoder.forward returned

vars == <<caller, decode_type, empty_bool, batch_size,
          before_embedded_inputs, embedded_inputs, context, hx, cx,
          decoder_input, mask, probs, idxs, zero_idxs, rc_ct, outputs,
          selections, step, pc, error, returned>>

Batch == 0 .. (batch_size - 1)

\* ------------------------------------------------------------ the dataset
\* One sample of VRPDataset: node 0 is the depot [x, y, 0, 0, 0, 0], the
\* others [x, y, capacity, t1, t1 + 2, 0]; the random draws are a fixed
\* function of (sample number, node).
Sample(s) ==
    [k \in Nodes |->
        IF k = 0
        THEN [x |-> s % 2, y |-> 0, demand |-> 0, t1 |-> 0, t2 |-> 0, h |-> 0]
        ELSE [x |-> (s + k) % 2, y |-> 0,
              demand |-> 1 + ((3 * s + 2 * k) % MaxDemand),
              t1 |-> (2 * s + 3 * k) % (MaxT1 + 1),
              t2 |-> ((2 * s + 3 * k) % (MaxT1 + 1)) + 2,
              h |-> 0]]

\* inputs of PointerNetwork.forward: [batch_size x sourceL x input_dim]
Inputs(first, B) == [b \in 0 .. (B - 1) |-> Sample(first + b)]

\* the same features in the layout Decoder.forward documents:
\* [sourceL x batch_size x input_dim]
Permute(inp, B) == [k \in Nodes |-> [b \in 0 .. (B - 1) |-> inp[b][k]]]

\* ------------------------------------------------------- tensor layouts
PN == "PointerNetwork"
DEC == "Decoder"

\* sizes of the first two dimensions of before_embedded_inputs
Dim0 == IF caller = PN THEN batch_size ELSE NodeNum
Dim1 == IF caller = PN THEN NodeNum ELSE batch_size

\* before_embedded_inputs[i, j, :] is inside the tensor
InBounds(i, j) == i < Dim0 /\ j < Dim1

\* ------------------------------------------------------------------ Init
Init ==
    /\ caller \in {PN, DEC}
    /\ decode_type \in IF caller = PN THEN {"stochastic"}
                       ELSE {"stochastic", "greedy", "beam"}
    /\ empty_bool \in {"False", "raise"}
    /\ batch_size \in 1 .. MaxBatch
    /\ \E first \in 0 .. MaxFirst :
          before_embedded_inputs =
              IF caller = PN THEN Inputs(first, batch_size)
              ELSE Permute(Inputs(first, batch_size), batch_size)
    /\ embedded_inputs = None
    /\ context = None
    /\ hx = None
    /\ cx = None
    /\ decoder_input = None
    /\ mask = None
    /\ probs = None
    /\ idxs = None
    /\ zero_idxs = {}
    /\ rc_ct = None
    /\ outputs = <<>>
    /\ selections = <<>>
    /\ step = 0
    /\ pc = "idle"
    /\ error = "none"
    /\ returned = None

\* ------------------------------------------------- PointerNetwork.forward
\* Embeds and encodes the whole batch, builds the first decoder input (the
\* depot's embedding, then vehicle_init_capacity and 0) and calls the decoder
\* with `inputs` itself as before_embedded_inputs.
\* Variant of FirstDecoderInput with vehicle_init_capacity written to the
\* last column instead of the one before it.
FirstDecoderInput_last_column ==
    [b \in Batch |-> <<0, 0, VehicleInitCapacity>>]

FirstDecoderInput ==
    [b \in Batch |-> <<0, VehicleInitCapacity, 0>>]

EnterDecoder ==
    /\ pc = "idle"
    /\ embedded_inputs' = [k \in Nodes |-> [b \in Batch |-> 0]]
    /\ context' = [b \in Batch |-> 0]
    /\ hx' = [b \in Batch |-> <<"enc", 0>>]
    /\ cx' = [b \in Batch |-> <<"enc", 0>>]
    /\ decoder_input' = FirstDecoderInput
    /\ pc' = "forward"
    /\ UNCHANGED <<caller, decode_type, empty_bool, batch_size,
                   before_embedded_inputs, mask, probs, idxs, zero_idxs,
                   rc_ct, outputs, selections, step, error, returned>>

PointerNetwork_forward ==
    /\ caller = PN
    /\ EnterDecoder

\* A direct call of Decoder.forward with the arguments its docstring states.
Decoder_call ==
    /\ caller = DEC
    /\ EnterDecoder

\* -------------------------------------------------------- Decoder.forward
\* Number of decoding steps: (seq_len - 1) * 2.
Budget == (NodeNum - 1) * 2

\* prob_0: zeros with column 0 filled with 1.  A probability is <<n, d>>,
\* the fraction n/d; <<0, 0>> is NaN.
prob_0 == [b \in Batch |-> [k \in Nodes |-> <<IF k = 0 THEN 1 ELSE 0, 1>>]]

\* lines 199-215: the trajectories start with the forced depot entry, every
\* vehicle starts with {vehicle_init_capacity, 0}, the mask is None.
forward_begin ==
    /\ pc = "forward"
    /\ idxs' = [b \in Batch |-> 0]
    /\ selections' = <<[b \in Batch |-> 0]>>
    /\ outputs' = <<prob_0>>
    /\ rc_ct' = [b \in Batch |-> <<VehicleInitCapacity, 0>>]
    /\ mask' = None
    /\ pc' = IF decode_type = "stochastic" THEN "loop" ELSE "fallthrough"
    /\ UNCHANGED <<caller, decode_type, empty_bool, batch_size,
                   before_embedded_inputs, embedded_inputs, context, hx, cx,
                   decoder_input, probs, zero_idxs, step, error, returned>>

\* lines 238-243: the 'greedy' branch is `pass`, any other mode matches no
\* branch; either way forward falls off its end and returns None.
forward_fallthrough ==
    /\ pc = "fallthrough"
    /\ returned' = None
    /\ pc' = "done"
    /\ UNCHANGED <<caller, decode_type, empty_bool, batch_size,
                   before_embedded_inputs, embedded_inputs, context, hx, cx,
                   decoder_input, mask, probs, idxs, zero_idxs, rc_ct,
                   outputs, selections, step, error>>

\* line 236: after the last iteration forward returns the trajectories.
forward_return ==
    /\ pc = "loop"
    /\ step = Budget
    /\ returned' = <<outputs, selections, <<hx, cx>>>>
    /\ pc' = "done"
    /\ UNCHANGED <<caller, decode_type, empty_bool, batch_size,
                   before_embedded_inputs, embedded_inputs, context, hx, cx,
                   decoder_input, mask, probs, idxs, zero_idxs, rc_ct,
                   outputs, selections, step, error>>

\* ------------------------------------------- Decoder.apply_mask_to_logits
\* mask None -> zeros; maskk = mask.clone(); the column of the most recent
\* selection of every row is set; column 0 is cleared in the rows whose most
\* recent selection is not the depot; the logits under maskk become -inf.
\* Returns <<logits, maskk>>.
\* Variants of apply_mask_to_logits with one statement changed; the claims
\* below are checked to tell the function from each of them.
\* without line 165, the depot column is never cleared:
apply_mask_to_logits_no_filter(logits, m, prev_idxs) ==
    LET mask0 == IF m = None
                 THEN [b \in Batch |-> [k \in Nodes |-> 0]]
                 ELSE m
        maskk == [b \in Batch |->
                     [k \in Nodes |->
                         IF k = prev_idxs[b] THEN 1 ELSE mask0[b][k]]]
    IN  << [b \in Batch |->
               [k \in Nodes |->
                   IF maskk[b][k] = 1 THEN NegInf ELSE logits[b][k]]],
           maskk >>

\* without line 166, the logits are returned as they came:
apply_mask_to_logits_no_inf(logits, m, prev_idxs) ==
    LET mask0 == IF m = None
                 THEN [b \in Batch |-> [k \in Nodes |-> 0]]
                 ELSE m
        set1  == [b \in Batch |->
                     [k \in Nodes |->
                         IF k = prev_idxs[b] THEN 1 ELSE mask0[b][k]]]
        maskk == [b \in Batch |->
                     [k \in Nodes |->
                         IF prev_idxs[b] # 0 /\ k = 0 THEN 0 ELSE set1[b][k]]]
    IN  <<logits, maskk>>

\* with a capacity check added, a node whose demand exceeds the remaining
\* capacity gets -inf too:
apply_mask_to_logits_capacity(logits, m, prev_idxs) ==
    LET mask0 == IF m = None
                 THEN [b \in Batch |-> [k \in Nodes |-> 0]]
                 ELSE m
        set1  == [b \in Batch |->
                     [k \in Nodes |->
                         IF k = prev_idxs[b] THEN 1 ELSE mask0[b][k]]]
        maskk == [b \in Batch |->
                     [k \in Nodes |->
                         IF prev_idxs[b] # 0 /\ k = 0 THEN 0 ELSE set1[b][k]]]
        over  == [b \in Batch |->
                     [k \in Nodes |->
                         /\ caller = DEC
                         /\ before_embedded_inputs[k][b].demand > rc_ct[b][1]]]
    IN  << [b \in Batch |->
               [k \in Nodes |->
                   IF maskk[b][k] = 1 \/ over[b][k]
                   THEN NegInf ELSE logits[b][k]]],
           maskk >>

\* with the mask rebuilt from zeros at every call, only the most recent
\* selection is masked:
apply_mask_to_logits_fresh(logits, m, prev_idxs) ==
    LET mask0 == [b \in Batch |-> [k \in Nodes |-> 0]]
        set1  == [b \in Batch |->
                     [k \in Nodes |->
                         IF k = prev_idxs[b] THEN 1 ELSE mask0[b][k]]]
        maskk == [b \in Batch |->
                     [k \in Nodes |->
                         IF prev_idxs[b] # 0 /\ k = 0 THEN 0 ELSE set1[b][k]]]
    IN  << [b \in Batch |->
               [k \in Nodes |->
                   IF maskk[b][k] = 1 THEN NegInf ELSE logits[b][k]]],
           maskk >>

apply_mask_to_logits(logits, m, prev_idxs) ==
    LET mask0 == IF m = None
                 THEN [b \in Batch |-> [k \in Nodes |-> 0]]
                 ELSE m
        set1  == [b \in Batch |->
                     [k \in Nodes |->
                         IF k = prev_idxs[b] THEN 1 ELSE mask0[b][k]]]
        maskk == [b \in Batch |->
                     [k \in Nodes |->
                         IF prev_idxs[b] # 0 /\ k = 0 THEN 0 ELSE set1[b][k]]]
    IN  << [b \in Batch |->
               [k \in Nodes |->
                   IF maskk[b][k] = 1 THEN NegInf ELSE logits[b][k]]],
           maskk >>

\* ------------------------------------------------------------- Attention
\* The scores an attention head returns at step t: finite (v . tanh(...)),
\* a function of the fixed parameters and of the head's inputs.
Logits(t) ==
    [b \in Batch |-> [k \in Nodes |-> (t + b + k) % 2]]

\* ------------------------------------------------------ nn.Softmax(dim=1)
\* exp on the model's logits: exp(-inf) = 0, positive and increasing else.
Exp(l) == IF l = NegInf THEN 0 ELSE 2 ^ l

RECURSIVE SumExp(_, _)
SumExp(row, n) ==
    IF n = 0 THEN 0 ELSE Exp(row[n - 1]) + SumExp(row, n - 1)

\* exp(l_k) / sum_j exp(l_j); a row of -inf only gives 0/0 = NaN everywhere.
sm(logits) ==
    [b \in Batch |->
        LET den == SumExp(logits[b], NodeNum)
        IN  [k \in Nodes |->
                IF den = 0 THEN <<0, 0>> ELSE <<Exp(logits[b][k]), den>>]]

\* --------------------------------------------- Decoder.forward.recurrence
\* The mask after the glimpse rounds (each applies the mask to the glimpse
\* logits; the pooled query g_l is internal to the kernels).
RECURSIVE glimpses(_, _, _, _)
glimpses(n, t, m, prev_idxs) ==
    IF n = 0 THEN m
    ELSE glimpses(n - 1, t,
                  apply_mask_to_logits(Logits(t), m, prev_idxs)[2], prev_idxs)

\* Returns <<probs, logit_mask>>; hy, cy come from the decoder LSTM.
recurrence_out(t, m, prev_idxs) ==
    LET gm == glimpses(n_glimpses, t, m, prev_idxs)
        r  == apply_mask_to_logits(Logits(t), gm, prev_idxs)
    IN  <<sm(r[1]), r[2]>>

\* line 218, one iteration of the loop begins.
recurrence ==
    /\ pc = "loop"
    /\ step < Budget
    /\ step' = step + 1
    /\ LET r == recurrence_out(step + 1, mask, idxs)
       IN  /\ probs' = r[1]
           /\ mask' = r[2]
    /\ hx' = [b \in Batch |-> <<"lstm", step + 1>>]
    /\ cx' = [b \in Batch |-> <<"lstm", step + 1>>]
    /\ pc' = "decode"
    /\ UNCHANGED <<caller, decode_type, empty_bool, batch_size,
                   before_embedded_inputs, embedded_inputs, context,
                   decoder_input, idxs, zero_idxs, rc_ct, outputs,
                   selections, error, returned>>

\* ----------------------------------------------- Decoder.decode_stochastic
IsNaNRow(row) == row[0][2] = 0

\* probs.multinomial(1).squeeze(1): every row draws a node of positive
\* probability.  A NaN row makes the call raise or, on builds that do not
\* check, yield some index of the row.
multinomial(p) ==
    { v \in [Batch -> Nodes] :
        \A b \in Batch : IsNaNRow(p[b]) \/ p[b][v[b]][1] > 0 }

multinomial_may_raise(p) == \E b \in Batch : IsNaNRow(p[b])

\* torch.nonzero(idxs).squeeze(1)
nonzero(v) == { b \in Batch : v[b] # 0 }

\* torch.from_numpy(np.where(idxs == 0)[0])
where_zero(v) == { b \in Batch : v[b] = 0 }

\* `if zero_idxs:` -- bool() of a LongTensor of batch positions: ambiguous
\* (RuntimeError) with two or more elements, the truth value of the single
\* element with one, and build-dependent with none.
truth_value(zero) ==
    IF Cardinality(zero) = 0 THEN empty_bool
    ELSE IF Cardinality(zero) = 1
         THEN (IF zero = {0} THEN "False" ELSE "True")
         ELSE "raise"

\* line 267: before_embedded_inputs[idxs[nonzero_idxs], nonzero_idxs, -1] = 1
set_visited(bei, nidxs) ==
    [i \in 0 .. (Dim0 - 1) |->
        [j \in 0 .. (Dim1 - 1) |->
            IF j \in nonzero(nidxs) /\ nidxs[j] = i
            THEN [bei[i][j] EXCEPT !.h = 1]
            ELSE bei[i][j]]]

\* lines 272-273: embedded_inputs[0, zero_idxs, :] = s2v(...), the value
\* Struct2Vec returns at step t.
re_embed(emb, zero, t) ==
    [k \in Nodes |->
        [b \in Batch |-> IF k = 0 /\ b \in zero THEN t ELSE emb[k][b]]]

\* torch.norm(v, dim=1) of a 2-vector
norm(dx, dy) ==
    CHOOSE r \in 0 .. (dx * dx + dy * dy) : r * r = dx * dx + dy * dy

\* before_embedded_inputs[v, list(range(batch_size)), :]
gather(bei, v) == [b \in Batch |-> bei[v[b]][b]]

gather_in_bounds(v) == \A b \in Batch : InBounds(v[b], b)

\* Variant of current_time_loop that adds the required capacity to the
\* remaining capacity instead of subtracting it.
RECURSIVE current_time_loop_add(_, _, _, _, _, _)
current_time_loop_add(rc, i, nz, distance, t_1, required_capacity) ==
    IF i = batch_size THEN rc
    ELSE IF i \in nz
         THEN LET cur_t == rc[i][2] + distance[i]
                  rc1 == [rc EXCEPT ![i] =
                             <<rc[i][1],
                               IF cur_t < t_1[i] THEN t_1[i] ELSE cur_t>>]
                  rc2 == [rc1 EXCEPT ![0] =
                             <<rc1[0][1] + required_capacity[i],
                               rc1[0][2] - required_capacity[i]>>]
              IN  current_time_loop_add(rc2, i + 1, nz, distance, t_1,
                                        required_capacity)
         ELSE current_time_loop_add(rc, i + 1, nz, distance, t_1,
                                    required_capacity)

\* lines 289-297: for i in range(batch_size), for the rows that selected a
\* service node: current time becomes max(current time + distance, t_1),
\* then row 0 of rc_ct has the required capacity subtracted.
RECURSIVE current_time_loop(_, _, _, _, _, _)
current_time_loop(rc, i, nz, distance, t_1, required_capacity) ==
    IF i = batch_size THEN rc
    ELSE IF i \in nz
         THEN LET cur_t == rc[i][2] + distance[i]
                  rc1 == [rc EXCEPT ![i] =
                             <<rc[i][1],
                               IF cur_t < t_1[i] THEN t_1[i] ELSE cur_t>>]
                  rc2 == [rc1 EXCEPT ![0] =
                             <<rc1[0][1] - required_capacity[i],
                               rc1[0][2] - required_capacity[i]>>]
              IN  current_time_loop(rc2, i + 1, nz, distance, t_1,
                                    required_capacity)
         ELSE current_time_loop(rc, i + 1, nz, distance, t_1,
                                required_capacity)

\* line 299: rc_ct[zero_idxs, :] = [vehicle_init_capacity, 0]
reset_at_depot(rc, zero) ==
    [b \in Batch |-> IF b \in zero THEN <<VehicleInitCapacity, 0>> ELSE rc[b]]

\* Variant of update_rc_ct with line 299 moved before the loop of line 289.
update_rc_ct_reset_first(rc, bei, prev_idxs, nidxs) ==
    LET prev_x_y == gather(bei, prev_idxs)
        cur_x_y  == gather(bei, nidxs)
        distance == [b \in Batch |->
                        norm(prev_x_y[b].x - cur_x_y[b].x,
                             prev_x_y[b].y - cur_x_y[b].y)]
        required_capacity == [b \in Batch |-> cur_x_y[b].demand]
        t_1 == [b \in Batch |-> cur_x_y[b].t1]
    IN  current_time_loop(reset_at_depot(rc, where_zero(nidxs)), 0,
                          nonzero(nidxs), distance, t_1, required_capacity)

\* lines 275-301 on the tensors as they are after lines 267 and 273.
update_rc_ct(rc, bei, prev_idxs, nidxs) ==
    LET prev_x_y == gather(bei, prev_idxs)
        cur_x_y  == gather(bei, nidxs)
        distance == [b \in Batch |->
                        norm(prev_x_y[b].x - cur_x_y[b].x,
                             prev_x_y[b].y - cur_x_y[b].y)]
        required_capacity == [b \in Batch |-> cur_x_y[b].demand]
        t_1 == [b \in Batch |-> cur_x_y[b].t1]
    IN  reset_at_depot(
            current_time_loop(rc, 0, nonzero(nidxs), distance, t_1,
                              required_capacity),
            where_zero(nidxs))

\* an exception leaves forward; tensors written in place keep the writes
raise(e, bei, emb) ==
    /\ pc' = "raised"
    /\ error' = e
    /\ before_embedded_inputs' = bei
    /\ embedded_inputs' = emb
    /\ UNCHANGED <<caller, decode_type, empty_bool, batch_size,
                   context, hx, cx, decoder_input, mask, probs, idxs,
                   zero_idxs, rc_ct, outputs, selections, step, returned>>

decode_with(nidxs) ==
    LET zero == where_zero(nidxs)
        bei1 == set_visited(before_embedded_inputs, nidxs)
        tv   == truth_value(zero)
        emb1 == IF tv = "True"
                THEN re_embed(embedded_inputs, zero, step)
                ELSE embedded_inputs
        rc1  == update_rc_ct(rc_ct, bei1, idxs, nidxs)
    IN  IF \E b \in nonzero(nidxs) : ~InBounds(nidxs[b], b)
        THEN raise("IndexError:267", before_embedded_inputs, embedded_inputs)
        ELSE IF tv = "raise"
        THEN raise("RuntimeError:271", bei1, embedded_inputs)
        ELSE IF tv = "True" /\ \E b \in zero : ~InBounds(0, b)
        THEN raise("IndexError:272", bei1, embedded_inputs)
        ELSE IF ~gather_in_bounds(idxs)
        THEN raise("IndexError:280", bei1, emb1)
        ELSE IF ~gather_in_bounds(nidxs)
        THEN raise("IndexError:281", bei1, emb1)
        ELSE /\ before_embedded_inputs' = bei1
             /\ embedded_inputs' = emb1
             /\ rc_ct' = rc1
             /\ decoder_input' =
                    [b \in Batch |->
                        <<emb1[nidxs[b]][b], rc1[b][1], rc1[b][2]>>]
             /\ idxs' = nidxs
             /\ zero_idxs' = zero
             /\ pc' = "reencode"
             /\ UNCHANGED <<caller, decode_type, empty_bool,
                            batch_size, context, hx, cx, mask, probs,
                            outputs, selections, step, error, returned>>

\* lines 220-221
decode_stochastic ==
    /\ pc = "decode"
    /\ \/ /\ multinomial_may_raise(probs)
          /\ raise("RuntimeError:263", before_embedded_inputs,
                   embedded_inputs)
       \/ \E nidxs \in multinomial(probs) : decode_with(nidxs)

\* ------------------------------------- Decoder.forward, lines 223 to 234
\* Variant of index_put that writes every row when idx is not empty.
index_put_all(t, idx, v) == [b \in Batch |-> IF idx = {} THEN t[b] ELSE v]

\* t[idx] = v: an index-selected in-place write along the batch dimension
index_put(t, idx, v) == [b \in Batch |-> IF b \in idx THEN v ELSE t[b]]

\* the columns of zero_idxs are re-encoded and spliced into context, hx, cx;
\* the step's probabilities and selections are appended.
reencode ==
    /\ pc = "reencode"
    /\ context' = index_put(context, zero_idxs, step)
    /\ hx' = index_put(hx, zero_idxs, <<"enc", step>>)
    /\ cx' = index_put(cx, zero_idxs, <<"enc", step>>)
    /\ outputs' = Append(outputs, probs)
    /\ selections' = Append(selections, idxs)
    /\ pc' = "loop"
    /\ UNCHANGED <<caller, decode_type, empty_bool, batch_size,
                   before_embedded_inputs, embedded_inputs, decoder_input,
                   mask, probs, idxs, zero_idxs, rc_ct, step, error,
                   returned>>

\* --------------------------------------------------------- specification
Next ==
    \/ PointerNetwork_forward
    \/ Decoder_call
    \/ forward_begin
    \/ forward_fallthrough
    \/ recurrence
    \/ decode_stochastic
    \/ reencode
    \/ forward_return

Spec == Init /\ [][Next]_vars

\* ================================================================ claims
\* Positions of forward: "decode" is reached when recurrence has produced
\* the step's mask and probabilities (idxs still holds the previous
\* selections), "reencode" when decode_stochastic has returned (idxs holds
\* the step's selections), "loop" when the iteration is complete.

Masked(b) == { k \in Nodes : mask[b][k] = 1 }

\* the nodes instance b selected at the steps completed so far
Selected(b) == { selections[t][b] : t \in 1 .. Len(selections) }

RECURSIVE SumNum(_, _)
SumNum(row, n) == IF n = 0 THEN 0 ELSE row[n - 1][1] + SumNum(row, n - 1)

\* ---- C1
\* C1 as stated: at every decoding step, an instance whose previous
\* selection was the depot has no node masked (the depot included), and an
\* instance whose previous selection was a service node has the depot
\* unmasked.
C1_Original ==
    pc = "decode" =>
        \A b \in Batch :
            /\ idxs[b] = 0 => Masked(b) = {}
            /\ idxs[b] # 0 => 0 \notin Masked(b)

\* C1 amended: at every decoding step the depot is unmasked for an instance
\* whose previous selection was a service node and masked for an instance
\* whose previous selection was the depot; the masked service nodes are
\* exactly the ones the instance selected at some earlier step.
C1_DepotMaskedOnlyAfterDepot ==
    pc = "decode" =>
        \A b \in Batch :
            /\ idxs[b] # 0 => 0 \notin Masked(b)
            /\ idxs[b] = 0 => 0 \in Masked(b)
            /\ Masked(b) \ {0} = Selected(b) \ {0}

\* a step after the first at which one instance comes from the depot and
\* another from a service node
C1_Witness ==
    /\ pc = "decode"
    /\ step >= 2
    /\ \E b1, b2 \in Batch :
          /\ idxs[b1] = 0 /\ 0 \in Masked(b1) /\ Masked(b1) # {0}
          /\ idxs[b2] # 0 /\ 0 \notin Masked(b2)

\* ---- C2
\* C2: after a decoding step in which an instance sampled the depot, its
\* vehicle state is exactly <<vehicle_init_capacity, 0>>.
C2_DepotResetsVehicle ==
    pc = "reencode" =>
        \A b \in Batch :
            idxs[b] = 0 => rc_ct[b] = <<VehicleInitCapacity, 0>>

\* position 0 returns to the depot from a service node in a step in which
\* another instance selects a service node (whose demand line 297 takes
\* from row 0 before line 299 resets it)
C2_Witness ==
    /\ pc = "reencode"
    /\ idxs[0] = 0
    /\ selections[Len(selections)][0] # 0
    /\ \E b \in Batch : idxs[b] # 0
    /\ rc_ct[0] = <<VehicleInitCapacity, 0>>

\* ---- C3
\* C3 as stated: in a decoding step in which an instance selects a service
\* node (a step inside a vehicle trip), its elapsed time does not decrease,
\* at every batch position.
C3_Original ==
    [][ (pc = "decode" /\ pc' = "reencode") =>
            \A b \in Batch :
                idxs'[b] # 0 => rc_ct'[b][2] >= rc_ct[b][2] ]_vars

C5_RefreshFrame ==
    [][ /\ (pc = "decode" /\ pc' = "reencode") =>
              \A b \in Batch \ zero_idxs' : \A k \in Nodes :
                  embedded_inputs'[k][b] = embedded_inputs[k][b]
        /\ (pc = "reencode" /\ pc' = "loop") =>
              \A b \in Batch \ zero_idxs :
                  /\ context'[b] = context[b]
                  /\ hx'[b] = hx[b]
                  /\ cx'[b] = cx[b] ]_vars

\* an iteration is complete in which some but not all instances returned to
\* the depot and were re-embedded and re-encoded
C5_Witness ==
    /\ pc = "loop"
    /\ zero_idxs # {}
    /\ zero_idxs # Batch
    /\ \E b \in zero_idxs :
          /\ embedded_inputs[0][b] = step
          /\ context[b] = step
          /\ hx[b] = <<"enc", step>>
    /\ \E b \in Batch \ zero_idxs : hx[b] = <<"lstm", step>>

\* ---- C6
\* C6 as stated: a stochastic forward pass always ends by returning, after
\* exactly 2 x (N - 1) decoding steps, two trajectories that hold the forced
\* depot entry (index 0, probability 1 on node 0) and then one entry per
\* step, every index in 0 .. N - 1.
C6_Original ==
    (decode_type = "stochastic" /\ pc \in {"done", "raised"}) =>
        /\ pc = "done"
        /\ step = Budget
        /\ Len(selections) = Budget + 1
        /\ Len(outputs) = Budget + 1
        /\ selections[1] = [b \in Batch |-> 0]
        /\ outputs[1] = prob_0
        /\ \A t \in 1 .. Len(selections) : \A b \in Batch :
              selections[t][b] \in Nodes

\* ---- C7
\* C7 as stated: with a decode mode other than 'stochastic', forward ends
\* with an error and never by returning.
C7_Original ==
    (decode_type # "stochastic" /\ pc \in {"done", "raised"}) =>
        /\ pc = "raised"
        /\ error # "none"

\* ---- C8
\* C8 as stated: when every node of an instance is masked at a step, no
\* distribution is computed from that row and no step completes a sample
\* from it.
C8_Original ==
    pc \in {"decode", "reencode"} =>
        \A b \in Batch : Masked(b) # Nodes /\ ~IsNaNRow(probs[b])

\* ---- C9
\* C9 as stated: after a decoding step in which an instance selected a
\* service node, its remaining capacity is not negative.
C9_Original ==
    pc = "reencode" =>
        \A b \in Batch : idxs[b] # 0 => rc_ct[b][1] >= 0

\* C9 amended: after a decoding step in which an instance selected a
\* service node its remaining capacity is at most vehicle_init_capacity (it
\* has no lower bound, demands are subtracted without a check).
C9_CapacityAtMostInitial ==
    pc = "reencode" =>
        \A b \in Batch : idxs[b] # 0 => rc_ct[b][1] <= VehicleInitCapacity

\* a batch of one instance (whose own slot is row 0) has selected a service
\* node and its remaining capacity is negative
C9_Witness ==
    /\ pc = "reencode"
    /\ batch_size = 1
    /\ caller = DEC
    /\ idxs[0] # 0
    /\ rc_ct[0][1] < 0

\* ---- C10
\* the masking policy, stated on the selections made so far: the depot is
\* illegal right after the depot, a service node once it has been selected
Illegal(b, k) == IF k = 0 THEN idxs[b] = 0 ELSE k \in Selected(b)

Feature(b, k) ==
    IF caller = PN THEN before_embedded_inputs[b][k]
    ELSE before_embedded_inputs[k][b]

\* C11 as stated: in a decoding step, every instance that selects a service
\* node has, after the step, its remaining capacity of before the step minus
\* the demand of the node it selected, in its own slot.
C11_Original ==
    [][ (pc = "decode" /\ pc' = "reencode") =>
            \A b \in Batch :
                idxs'[b] # 0 =>
                    rc_ct'[b][1] = rc_ct[b][1] - Feature(b, idxs'[b]).demand
      ]_vars

\* ---- C12
\* the set of masked nodes of row b of a mask tensor (None masks nothing)
MaskedIn(m, b) == IF m = None THEN {} ELSE { k \in Nodes : m[b][k] = 1 }

\* C12 as stated: at every decoding step the mask of an instance holds
\* exactly its immediately preceding selection when that was a service node
\* and is empty otherwise.
C12_Original ==
    pc = "decode" =>
        \A b \in Batch :
            Masked(b) = IF idxs[b] # 0 THEN {idxs[b]} ELSE {}

\* C12 amended: the mask of an instance at a decoding step is its mask of
\* the step before, without the depot, plus its immediately preceding
\* selection (the depot included): service nodes selected at earlier steps
\* stay masked and a return to the depot clears nothing.
C12_MaskAccumulates ==
    [][ (pc = "loop" /\ pc' = "decode") =>
            \A b \in Batch :
                MaskedIn(mask', b) = (MaskedIn(mask, b) \ {0}) \cup {idxs[b]}
      ]_vars

\* the step after one instance returned to the depot and another selected
\* its second service node: the first still has a service node masked, the
\* second has both
C12_Witness ==
    /\ pc = "decode"
    /\ step >= 3
    /\ \E b1, b2 \in Batch :
          /\ idxs[b1] = 0
          /\ selections[Len(selections) - 1][b1] # 0
          /\ selections[Len(selections) - 1][b1] \in Masked(b1)
          /\ idxs[b2] # 0
          /\ Cardinality(Masked(b2)) >= 2

\* ---- C13
\* Euclidean distance between nodes j and k of instance b
Distance(b, j, k) ==
    norm(Feature(b, j).x - Feature(b, k).x, Feature(b, j).y - Feature(b, k).y)

Max(a, c) == IF a < c THEN c ELSE a

\* C13 as stated: in a decoding step, every instance that selects a service
\* node has, after the step, the elapsed time max(elapsed time before the
\* step + distance from the previous to the selected node, time-window-start
\* of the selected node), at every batch position.
C13_Original ==
    [][ (pc = "decode" /\ pc' = "reencode") =>
            \A b \in Batch :
                idxs'[b] # 0 =>
                    rc_ct'[b][2] =
                        Max(rc_ct[b][2] + Distance(b, idxs[b], idxs'[b]),
                            Feature(b, idxs'[b]).t1)
      ]_vars

\* ---- C14
\* C14 as stated: in every decoding step the instances that sampled the
\* depot, and only they, get their embedding recomputed by decode_stochastic
\* and their context, hidden and cell state recomputed by forward; the step
\* does not fail on the test of the set of returning instances, whether the
\* set is empty, is position 0 alone or has several members.
C14_Original ==
    [][ /\ (pc = "decode" /\ pc' = "raised") => error' # "RuntimeError:271"
        /\ (pc = "decode" /\ pc' = "reencode") =>
              \A b \in Batch :
                  (idxs'[b] = 0) <=> (embedded_inputs'[0][b] = step)
        /\ (pc = "reencode" /\ pc' = "loop") =>
              \A b \in Batch :
                  (idxs[b] = 0) <=> /\ context'[b] = step
                                    /\ hx'[b] = <<"enc", step>>
                                    /\ cx'[b] = <<"enc", step>>
      ]_vars

\* ---- C15
\* C15 as stated: a decoding step sets the visited-flag of the service node
\* each instance sampled, in that instance's raw features, and changes no
\* other field of the raw features; an instance that sampled the depot has
\* no flag set.
C15_Original ==
    [][ (pc = "decode" /\ pc' = "reencode") =>
            \A b \in Batch : \A k \in Nodes :
                Feature(b, k)' =
                    IF k # 0 /\ idxs'[b] = k
                    THEN [Feature(b, k) EXCEPT !.h = 1]
                    ELSE Feature(b, k)
      ]_vars

\* ---- C16
\* lines 289-299 in a batch made of instance b alone (its slot is row 0):
\* the vehicle state after it selects node new, coming from node prev
SoloStep(rc, b, prev, new) ==
    IF new = 0 THEN <<VehicleInitCapacity, 0>>
    ELSE LET d == Feature(b, new).demand
             t == Max(rc[2] + Distance(b, prev, new), Feature(b, new).t1)
         IN  <<rc[1] - d, t - d>>

\* the vehicle state of instance b after the first n entries of its own
\* trajectory, in the batch made of instance b alone
RECURSIVE SoloRun(_, _)
SoloRun(b, n) ==
    IF n <= 1 THEN <<VehicleInitCapacity, 0>>
    ELSE SoloStep(SoloRun(b, n - 1), b,
                  selections[n - 1][b], selections[n][b])

\* C16 as stated, the second batch being the instance alone: after every
\* completed decoding step the vehicle state of every instance is the one
\* its own features and its own selections give when no other instance is
\* in the batch.
C16_Original ==
    (pc = "loop" /\ step >= 1) =>
        \A b \in Batch : rc_ct[b] = SoloRun(b, Len(selections))

\* ---- C17
\* C17: before the first decoding step every instance has previous index 0,
\* the vehicle state <<vehicle_init_capacity, 0>> and no node masked, and
\* its decoder input is the embedding of its depot followed by
\* vehicle_init_capacity and 0.
C17_InitialState ==
    (pc \in {"loop", "fallthrough"} /\ step = 0) =>
        \A b \in Batch :
            /\ idxs[b] = 0
            /\ selections = <<[c \in Batch |-> 0]>>
            /\ rc_ct[b] = <<VehicleInitCapacity, 0>>
            /\ MaskedIn(mask, b) = {}
            /\ decoder_input[b] =
                   <<embedded_inputs[0][b], VehicleInitCapacity, 0>>

\* PointerNetwork.forward has called the decoder with a batch of several
\* instances and the decoding loop is about to begin
C17_Witness ==
    /\ pc = "loop"
    /\ step = 0
    /\ caller = PN
    /\ batch_size >= 2
    /\ mask = None
    /\ \A b \in Batch : decoder_input[b][2] = VehicleInitCapacity

\* ---- C18
\* C18 as stated: at every decoding step within the budget every instance
\* has at least one unmasked node.
C18_Original ==
    (pc = "decode" /\ step <= Budget) =>
        \A b \in Batch : \E k \in Nodes : k \notin Masked(b)

====
